---- MODULE Spec2Model ----
(***************************************************************************)
(* Model of pyeit/eit/jac.py: the JAC solver (setup, solve, map, solve_gs,  *)
(* bp_solve, gn, project) and the module functions h_matrix and sar.        *)
(*                                                                          *)
(* Numbers are exact Gaussian rationals (a + b*i)/d, written <<a, b, d>>    *)
(* in lowest terms with d > 0, so equality of values is equality of tuples. *)
(* Vectors are sequences of numbers, matrices are sequences of rows.        *)
(* The exponent p of the regularisation ranges over naturals, for which     *)
(* the element-wise power is exact.                                         *)
(***************************************************************************)
EXTENDS Integers, Sequences, FiniteSets, TLC

\* ------------------------------------------------------------------------
\* Scalars
\* ------------------------------------------------------------------------
Abs(a) == IF a < 0 THEN -a ELSE a

RECURSIVE Gcd(_, _)
Gcd(a, b) == IF b = 0 THEN a ELSE Gcd(b, a % b)

Norm(a, b, d) ==
  LET g == Gcd(Gcd(Abs(a), Abs(b)), Abs(d))
      s == IF d < 0 THEN -1 ELSE 1
  IN  <<(s * a) \div g, (s * b) \div g, (s * d) \div g>>

Num(k) == <<k, 0, 1>>
Frac(n, d) == Norm(n, 0, d)
Cplx(a, b) == <<a, b, 1>>
CZero == Num(0)
COne == Num(1)

CAdd(x, y) == Norm(x[1] * y[3] + y[1] * x[3], x[2] * y[3] + y[2] * x[3], x[3] * y[3])
CNeg(x) == <<-x[1], -x[2], x[3]>>
CSub(x, y) == CAdd(x, CNeg(y))
CMul(x, y) == Norm(x[1] * y[1] - x[2] * y[2], x[1] * y[2] + x[2] * y[1], x[3] * y[3])
CConj(x) == <<x[1], -x[2], x[3]>>
CInv(x) == Norm(x[3] * x[1], -(x[3] * x[2]), x[1] * x[1] + x[2] * x[2])
CDiv(x, y) == CMul(x, CInv(y))

\* x ** k for a natural k; numpy gives 0 ** 0 = 1
RECURSIVE CPow(_, _)
CPow(x, k) == IF k = 0 THEN COne ELSE CMul(x, CPow(x, k - 1))

\* order of two real numbers (imaginary part 0)
RGt(x, y) == x[1] * y[3] > y[1] * x[3]
RGe(x, y) == x[1] * y[3] >= y[1] * x[3]

RECURSIVE CSum(_)
CSum(s) == IF Len(s) = 0 THEN CZero ELSE CAdd(Head(s), CSum(Tail(s)))

\* ------------------------------------------------------------------------
\* Vectors and matrices (numpy / scipy.linalg primitives used by jac.py)
\* ------------------------------------------------------------------------
Rows(A) == Len(A)
Cols(A) == IF Len(A) = 0 THEN 0 ELSE Len(A[1])

\* the sequence with the elements of f, evaluated once
Arr(f) == SubSeq(f, 1, Len(f))

VAdd(x, y) == Arr([k \in 1..Len(x) |-> CAdd(x[k], y[k])])
VSub(x, y) == Arr([k \in 1..Len(x) |-> CSub(x[k], y[k])])
VNeg(x) == Arr([k \in 1..Len(x) |-> CNeg(x[k])])
VScale(a, x) == Arr([k \in 1..Len(x) |-> CMul(a, x[k])])
VDivE(x, y) == Arr([k \in 1..Len(x) |-> CDiv(x[k], y[k])])
VZero(n) == Arr([k \in 1..n |-> CZero])

\* np.dot of two vectors: no conjugation
VDot(x, y) == CSum(Arr([k \in 1..Len(x) |-> CMul(x[k], y[k])]))
\* np.dot of a matrix and a vector
MatVec(A, x) == Arr([i \in 1..Rows(A) |-> VDot(A[i], x)])
\* np.dot of two matrices
MatMul(A, B) ==
  Arr([i \in 1..Rows(A) |-> Arr([j \in 1..Cols(B) |->
      CSum(Arr([k \in 1..Rows(B) |-> CMul(A[i][k], B[k][j])]))])])

Transpose(A) == Arr([j \in 1..Cols(A) |-> Arr([i \in 1..Rows(A) |-> A[i][j]])])
Conjugate(A) == Arr([i \in 1..Rows(A) |-> Arr([j \in 1..Cols(A) |-> CConj(A[i][j])])])
MatAdd(A, B) ==
  Arr([i \in 1..Rows(A) |-> Arr([j \in 1..Cols(A) |-> CAdd(A[i][j], B[i][j])])])
MatScale(a, A) ==
  Arr([i \in 1..Rows(A) |-> Arr([j \in 1..Cols(A) |-> CMul(a, A[i][j])])])
\* np.diag of a matrix, np.diag of a vector, np.eye
DiagOf(A) == Arr([k \in 1..Rows(A) |-> A[k][k]])
DiagMat(x) ==
  Arr([i \in 1..Len(x) |-> Arr([j \in 1..Len(x) |-> IF i = j THEN x[i] ELSE CZero])])
Eye(n) == Arr([i \in 1..n |-> Arr([j \in 1..n |-> IF i = j THEN COne ELSE CZero])])
\* element-wise power of a vector
VPow(x, k) == Arr([i \in 1..Len(x) |-> CPow(x[i], k)])

Minor(A, i, j) ==
  Arr([r \in 1..(Rows(A) - 1) |-> Arr([c \in 1..(Rows(A) - 1) |->
      A[IF r < i THEN r ELSE r + 1][IF c < j THEN c ELSE c + 1]])])

RECURSIVE Det(_)
Det(A) ==
  IF Rows(A) = 0 THEN COne
  ELSE IF Rows(A) = 1 THEN A[1][1]
  ELSE CSum(Arr([j \in 1..Rows(A) |->
         CMul(IF j % 2 = 1 THEN A[1][j] ELSE CNeg(A[1][j]), Det(Minor(A, 1, j)))]))

ReplaceCol(A, j, b) ==
  Arr([r \in 1..Rows(A) |-> Arr([c \in 1..Rows(A) |-> IF c = j THEN b[r] ELSE A[r][c]])])

\* ------------------------------------------------------------------------
\* Results of calls that may raise, and optional (None) arguments
\* ------------------------------------------------------------------------
NoVal == <<>>
NoExc == "none"
LinAlgError == "LinAlgError"
ForwardModelError == "ForwardModelError"
ConfigurationError == "ConfigurationError"
Ok(x) == [exc |-> NoExc, val |-> x]
Raise(e) == [exc |-> e, val |-> NoVal]

None == [none |-> TRUE]
Some(x) == [none |-> FALSE, val |-> x]

\* variant of LaSolve: a singular A is answered with the zero vector
LaSolveNoRaise(A, b) ==
  IF Det(A) = CZero THEN Ok(VZero(Len(b)))
  ELSE Ok(Arr([j \in 1..Rows(A) |-> CDiv(Det(ReplaceCol(A, j, b)), Det(A))]))

\* scipy.linalg.solve(A, b): the solution of A x = b, LinAlgError when A is singular
LaSolve(A, b) ==
  IF Det(A) = CZero THEN Raise(LinAlgError)
  ELSE Ok(Arr([j \in 1..Rows(A) |-> CDiv(Det(ReplaceCol(A, j, b)), Det(A))]))

\* scipy.linalg.inv(A): LinAlgError when A is singular
LaInv(A) ==
  IF Det(A) = CZero THEN Raise(LinAlgError)
  ELSE Ok(Transpose(Arr([k \in 1..Rows(A) |->
         LaSolve(A, Arr([r \in 1..Rows(A) |-> IF r = k THEN COne ELSE CZero])).val])))

\* ------------------------------------------------------------------------
\* Method dispatch.  A method argument is a string object: val is its text,
\* same tells whether the identity test "method is 'kotre'" succeeds on it
\* (it does for the interned literal, it need not for an equal string that
\* was built at run time).
\* ------------------------------------------------------------------------
Method(val, same) == [val |-> val, same |-> same]
IsKotre(method) == method.val = "kotre" /\ method.same

\* ------------------------------------------------------------------------
\* h_matrix(jac, p, lamb, method)
\* ------------------------------------------------------------------------
h_matrix_j_w_j(jac) == MatMul(Transpose(jac), jac)

h_matrix_r_mat(jac, p, method) ==
  IF IsKotre(method) THEN DiagMat(VPow(DiagOf(h_matrix_j_w_j(jac)), p))
  ELSE Eye(Cols(jac))

h_matrix_sys(jac, p, lamb, method) ==
  MatAdd(h_matrix_j_w_j(jac), MatScale(lamb, h_matrix_r_mat(jac, p, method)))

h_matrix(jac, p, lamb, method) ==
  LET inv == LaInv(h_matrix_sys(jac, p, lamb, method))
  IN  IF inv.exc # NoExc THEN inv ELSE Ok(MatMul(inv.val, Transpose(jac)))

\* ------------------------------------------------------------------------
\* JAC.solve, JAC.map, JAC.solve_gs, JAC.bp_solve
\* ------------------------------------------------------------------------
solve(H, v1, v0, normalize) ==
  LET dv == IF normalize THEN VNeg(VDivE(VSub(v1, v0), v0)) ELSE VSub(v1, v0)
  IN  VNeg(MatVec(H, dv))

map(H, v) == VNeg(MatVec(H, v))

\* variant of solve_gs_a: the gain is normalised by v1.v1
solve_gs_a_by_v1(v1, v0) == CDiv(VDot(v1, v0), VDot(v1, v1))
solve_gs_a(v1, v0) == CDiv(VDot(v1, v0), VDot(v0, v0))
solve_gs_dv(v1, v0) == VSub(v1, VScale(solve_gs_a(v1, v0), v0))
solve_gs(H, v1, v0) == VNeg(MatVec(H, solve_gs_dv(v1, v0)))

bp_solve(J, v1, v0, normalize) ==
  LET dv == IF normalize THEN VNeg(VDivE(VSub(v1, v0), v0)) ELSE VSub(v1, v0)
  IN  VNeg(MatVec(Conjugate(Transpose(J)), dv))

\* ------------------------------------------------------------------------
\* sar(el2no) and JAC.project
\* ------------------------------------------------------------------------
\* rows of el2no holding one of the nodes of element i (i0, i1, i2, unique)
sar_idx(el2no, i) ==
  {j \in 1..Len(el2no) :
     \E k \in 1..3 : \E c \in 1..Len(el2no[j]) : el2no[j][c] = el2no[i][k]}

\* variant of sar_nn: the element itself is counted
sar_nn_with_self(idx) == Cardinality(idx)
sar_nn(idx) == Cardinality(idx) - 1

sar(el2no) ==
  Arr([i \in 1..Len(el2no) |-> Arr([j \in 1..Len(el2no) |->
     IF j = i THEN Num(sar_nn(sar_idx(el2no, i)))
     ELSE IF j \in sar_idx(el2no, i) THEN Num(-1)
     ELSE Eye(Len(el2no))[i][j]])])

project(el2no, ds) == MatVec(sar(el2no), ds)

\* ------------------------------------------------------------------------
\* JAC.gn: the pieces of one iteration of the loop
\* ------------------------------------------------------------------------
\* variant of LoopRuns: the loop stops one iteration early
LoopRunsShort(i, maxiter) == i < maxiter - 1

\* for i in range(maxiter)
LoopRuns(i, maxiter) == i < maxiter

\* variant of gn_r0: the sign of the simulated voltages is lost
gn_r0_sum(v, fs_v) == VAdd(v, fs_v)
gn_r0(v, fs_v) == VSub(v, fs_v)
gn_j_r(jac, r0) == MatVec(Conjugate(Transpose(jac)), r0)
gn_j_w_j(jac) == MatMul(Conjugate(Transpose(jac)), jac)

gn_r_mat(jac, p, method) ==
  IF IsKotre(method) THEN DiagMat(VPow(DiagOf(gn_j_w_j(jac)), p))
  ELSE Eye(Cols(jac))

gn_h_mat(jac, p, lamb, method) ==
  MatAdd(gn_j_w_j(jac), MatScale(lamb, gn_r_mat(jac, p, method)))

\* variant of LambDecay: the decay ignores lamb_min
LambDecayAlways(lamb, lamb_min, lamb_decay) == CMul(lamb, lamb_decay)

\* if lamb > lamb_min: lamb *= lamb_decay
LambDecay(lamb, lamb_min, lamb_decay) ==
  IF RGt(lamb, lamb_min) THEN CMul(lamb, lamb_decay) ELSE lamb

\* x0 = x0 - d_k
gn_update(x0, d_k) == VSub(x0, d_k)

\* variant of PermAfterUpdate: the update is made in place (x0 -= d_k), so
\* it writes through to self.perm when x0 is that array
PermAfterUpdateInPlace(perm, alias, x1) == IF alias THEN x1 ELSE perm

\* self.perm after "x0 = x0 - d_k": the difference is a new array bound to
\* the local name, so the array self.perm refers to is left alone even when
\* x0 was that very array (alias)
PermAfterUpdate(perm, alias, x1) == perm

\* The body of the loop once the forward model has answered with fs.
\* g is the frame of gn (its arguments and locals).  The result holds the
\* frame after the body, the system matrix that was formed, the lamb it was
\* formed with, and the exception of la.solve if it raised (the decay of lamb
\* precedes the solve).
GnStep(g, fs) ==
  LET r0 == gn_r0(g.v, fs.v)
      j_r == gn_j_r(fs.jac, r0)
      h_mat == gn_h_mat(fs.jac, g.p, g.lamb, g.method)
      lamb1 == LambDecay(g.lamb, g.lamb_min, g.lamb_decay)
      sol == LaSolve(h_mat, j_r)
  IN  IF sol.exc # NoExc
      THEN [exc |-> sol.exc, h_mat |-> h_mat, lamb |-> g.lamb, d_k |-> NoVal,
            g |-> [g EXCEPT !.lamb = lamb1]]
      ELSE [exc |-> NoExc, h_mat |-> h_mat, lamb |-> g.lamb, d_k |-> sol.val,
            g |-> [g EXCEPT !.lamb = lamb1, !.x0 = gn_update(g.x0, sol.val),
                            !.alias = FALSE, !.i = g.i + 1]]

\* ------------------------------------------------------------------------
\* Inputs
\* ------------------------------------------------------------------------
MaxIter == 3

I_ == Cplx(0, 1)
JMix == << <<Num(1), Num(1)>>, <<Num(0), Num(1)>> >>
JCx == << <<I_, Num(0)>>, <<Num(1), Num(1)>> >>
JDef == << <<Num(1), Num(0)>>, <<Num(0), Num(0)>> >>
VA == <<Num(1), Num(2)>>
VB == <<Num(2), I_>>
XA == <<Num(1), Num(1)>>
XB == <<Num(2), Num(1)>>

SolverJ == {JMix, JCx}
Perms == {XA}
Mesh2 == {<< <<0, 1, 2>>, <<1, 2, 3>> >>}
Voltages == {VA, VB}
Methods == {Method("kotre", TRUE), Method("kotre", FALSE),
            Method("lm", FALSE), Method("tv", FALSE)}
Exponents == {1}
SetupLambs == {Num(1)}
GnMeasured == {VA}
GnLambs == {None, Some(Num(0))}
GnExponents == {None, Some(0)}
GnMethods == {None, Some(Method("kotre", TRUE)), Some(Method("tv", FALSE))}
GnStarts == {None, Some(XB)}
\* pairs <<lamb_decay, lamb_min>>
Schedules == {<<Num(1), Num(0)>>, <<Frac(1, 2), Frac(1, 10)>>,
              <<Frac(1, 2), Frac(3, 4)>>}

\* what the forward model may answer to a call: voltages and a Jacobian,
\* or a failure
FwdFail == [exc |-> ForwardModelError, v |-> NoVal, jac |-> NoVal]
FwdOutputs ==
  {[exc |-> NoExc, v |-> VA, jac |-> JMix],
   [exc |-> NoExc, v |-> VB, jac |-> JCx],
   [exc |-> NoExc, v |-> VA, jac |-> JDef],
   FwdFail}

\* ------------------------------------------------------------------------
\* State
\* ------------------------------------------------------------------------
VARIABLES
  J, perm, H, params, el2no,  \* fields of the solver object
  pc,                          \* "idle", "gn" while a gn call is in its loop,
                               \* "done" when a call has ended and its outcome is in res
  frame,                       \* arguments and locals of the running gn call
  fwd,                         \* the forward model: its answer to each perm asked so far
  hist,                        \* record of the current gn call (calls made, matrices formed)
  res,                         \* outcome of the last call: operation, exception, value
  inp, out                     \* inputs and results of a function applied on its own

selfVars == <<J, perm, H, params, el2no>>
vars == <<J, perm, H, params, el2no, pc, frame, fwd, hist, res, inp, out>>

NoMethod == Method("", FALSE)
NoFrame == [v |-> NoVal, x0 |-> NoVal, alias |-> FALSE, maxiter |-> 0, p |-> 0,
            lamb |-> CZero, lamb_decay |-> COne, lamb_min |-> CZero,
            method |-> NoMethod, i |-> 0]
NoHist == [start |-> NoFrame, self0 |-> None, fwdCalls |-> <<>>, answers |-> <<>>,
           hUsed |-> <<>>, lambs |-> <<>>, ds |-> <<>>, xs |-> <<>>]
Res(op, exc, val, method) == [op |-> op, exc |-> exc, val |-> val, method |-> method]

SelfSnapshot == [J |-> J, perm |-> perm, H |-> H, params |-> params]

\* the solver after construction: Jacobian, baseline and mesh in place,
\* setup not yet run
Init ==
  /\ J \in SolverJ
  /\ perm \in Perms
  /\ el2no \in Mesh2
  /\ H = None
  /\ params = None
  /\ pc = "idle"
  /\ frame = NoFrame
  /\ fwd = <<>>
  /\ hist = NoHist
  /\ res = Res("init", NoExc, NoVal, NoMethod)
  /\ inp = NoVal
  /\ out = NoVal

\* a call other than gn has no loop: it ends at once
Ends == pc' = "done" /\ UNCHANGED <<frame, fwd, hist>>

\* JAC.setup(p, lamb, method)
Setup ==
  /\ pc = "idle"
  /\ \E p \in Exponents, lamb \in SetupLambs, method \in Methods :
       LET h == h_matrix(J, p, lamb, method)
       IN  /\ H' = IF h.exc = NoExc THEN Some(h.val) ELSE H
           /\ params' = IF h.exc = NoExc
                        THEN Some([p |-> p, lamb |-> lamb, method |-> method])
                        ELSE params
           /\ res' = Res("setup", h.exc, NoVal, method)
  /\ Ends
  /\ UNCHANGED <<J, perm, el2no, inp, out>>

NoZero(x) == \A k \in 1..Len(x) : x[k] # CZero

\* JAC.solve(v1, v0, normalize)
Solve ==
  /\ pc = "idle" /\ ~H.none
  /\ \E v1 \in Voltages, v0 \in Voltages, normalize \in BOOLEAN :
       /\ normalize => NoZero(v0)
       /\ res' = Res("solve", NoExc, solve(H.val, v1, v0, normalize), NoMethod)
  /\ Ends
  /\ UNCHANGED <<selfVars, inp, out>>

\* JAC.map(v)
Map ==
  /\ pc = "idle" /\ ~H.none
  /\ \E v \in Voltages : res' = Res("map", NoExc, map(H.val, v), NoMethod)
  /\ Ends
  /\ UNCHANGED <<selfVars, inp, out>>

\* JAC.solve_gs(v1, v0)
SolveGs ==
  /\ pc = "idle" /\ ~H.none
  /\ \E v1 \in Voltages, v0 \in Voltages :
       /\ VDot(v0, v0) # CZero
       /\ res' = Res("solve_gs", NoExc, solve_gs(H.val, v1, v0), NoMethod)
  /\ Ends
  /\ UNCHANGED <<selfVars, inp, out>>

\* JAC.bp_solve(v1, v0, normalize)
BpSolve ==
  /\ pc = "idle"
  /\ \E v1 \in Voltages, v0 \in Voltages, normalize \in BOOLEAN :
       /\ normalize => NoZero(v0)
       /\ res' = Res("bp_solve", NoExc, bp_solve(J, v1, v0, normalize), NoMethod)
  /\ Ends
  /\ UNCHANGED <<selfVars, inp, out>>

\* JAC.project(ds)
Project ==
  /\ pc = "idle"
  /\ \E ds \in {XA, XB} : res' = Res("project", NoExc, project(el2no, ds), NoMethod)
  /\ Ends
  /\ UNCHANGED <<selfVars, inp, out>>

\* JAC.gn(v, x0, maxiter, p, lamb, lamb_decay, lamb_min, method): entry,
\* lines 123-130; a None argument takes the configured value, which is there
\* once setup has run
GnCall ==
  /\ pc = "idle"
  /\ \E v \in GnMeasured, x0 \in GnStarts, maxiter \in 0..MaxIter, p \in GnExponents,
        lamb \in GnLambs, sched \in Schedules, method \in GnMethods :
       /\ (p.none \/ lamb.none \/ method.none) => ~params.none
       /\ frame' = [v |-> v,
                    x0 |-> IF x0.none THEN perm ELSE x0.val,
                    alias |-> x0.none,
                    maxiter |-> maxiter,
                    p |-> IF p.none THEN params.val.p ELSE p.val,
                    lamb |-> IF lamb.none THEN params.val.lamb ELSE lamb.val,
                    lamb_decay |-> sched[1],
                    lamb_min |-> sched[2],
                    method |-> IF method.none THEN params.val.method ELSE method.val,
                    i |-> 0]
  /\ pc' = "gn"
  /\ fwd' = <<>>
  /\ hist' = [NoHist EXCEPT !.start = frame', !.self0 = Some(SelfSnapshot)]
  /\ res' = Res("gn", NoExc, NoVal, frame'.method)
  /\ UNCHANGED <<selfVars, inp, out>>

\* the forward model is a function of perm: a perm asked before gets the
\* answer it got before
FwdAnswers(x) == IF x \in DOMAIN fwd THEN {fwd[x]} ELSE FwdOutputs

\* one iteration of the loop of gn, lines 132-160
GnIter ==
  /\ pc = "gn"
  /\ LoopRuns(frame.i, frame.maxiter)
  /\ \E fs \in FwdAnswers(frame.x0) :
       /\ fwd' = [q \in (DOMAIN fwd) \cup {frame.x0} |-> IF q = frame.x0 THEN fs ELSE fwd[q]]
       /\ IF fs.exc # NoExc
          THEN /\ pc' = "done"
               /\ res' = Res("gn", fs.exc, NoVal, frame.method)
               /\ hist' = [hist EXCEPT !.fwdCalls = Append(@, frame.x0),
                                       !.answers = Append(@, fs)]
               /\ UNCHANGED <<frame, perm>>
          ELSE \E st \in {GnStep(frame, fs)} :
                   /\ frame' = st.g
                   /\ hist' = [hist EXCEPT !.fwdCalls = Append(@, frame.x0),
                                           !.answers = Append(@, fs),
                                           !.hUsed = Append(@, st.h_mat),
                                           !.lambs = Append(@, st.lamb),
                                           !.ds = IF st.exc = NoExc
                                                  THEN Append(@, st.d_k) ELSE @,
                                           !.xs = IF st.exc = NoExc
                                                  THEN Append(@, st.g.x0) ELSE @]
                   /\ IF st.exc # NoExc
                      THEN /\ pc' = "done"
                           /\ res' = Res("gn", st.exc, NoVal, frame.method)
                           /\ UNCHANGED perm
                      ELSE /\ pc' = "gn"
                           /\ UNCHANGED res
                           /\ perm' = PermAfterUpdate(perm, frame.alias, st.g.x0)
  /\ UNCHANGED <<J, H, params, el2no, inp, out>>

\* return x0, line 162
GnReturn ==
  /\ pc = "gn"
  /\ ~LoopRuns(frame.i, frame.maxiter)
  /\ pc' = "done"
  /\ res' = Res("gn", NoExc, frame.x0, frame.method)
  /\ UNCHANGED <<selfVars, frame, fwd, hist, inp, out>>

\* the caller has taken the outcome of the call that ended; the frame of
\* that call is gone and the solver waits for the next call
Collect ==
  /\ pc = "done"
  /\ pc' = "idle"
  /\ frame' = NoFrame
  /\ fwd' = <<>>
  /\ hist' = NoHist
  /\ res' = Res("init", NoExc, NoVal, NoMethod)
  /\ UNCHANGED <<selfVars, inp, out>>

Next ==
  \/ Setup
  \/ Solve
  \/ Map
  \/ SolveGs
  \/ BpSolve
  \/ Project
  \/ GnCall
  \/ GnIter
  \/ GnReturn
  \/ Collect

Spec == Init /\ [][Next]_vars

\* ------------------------------------------------------------------------
\* Properties of gn
\* ------------------------------------------------------------------------
GnDoneOk == pc = "done" /\ res.op = "gn" /\ res.exc = NoExc
start == hist.start

\* C1: a gn call with maxiter >= 1 that returns has run exactly maxiter
\* iterations: the forward model was called maxiter times, the first call
\* with the initial x0 and call k+1 with the estimate of iteration k, and
\* the value returned is the estimate of the last iteration.  While the
\* call runs the number of forward calls is the iteration index.
C1_ExactlyMaxiterIterations ==
  /\ pc = "gn" => Len(hist.fwdCalls) = frame.i /\ frame.i <= start.maxiter
  /\ (GnDoneOk /\ start.maxiter >= 1) =>
       /\ Len(hist.fwdCalls) = start.maxiter
       /\ Len(hist.xs) = start.maxiter
       /\ hist.fwdCalls[1] = start.x0
       /\ \A k \in 2..start.maxiter : hist.fwdCalls[k] = hist.xs[k - 1]
       /\ res.val = hist.xs[start.maxiter]

\* a returned run of MaxIter iterations whose residual was zero from the
\* first iteration on
C1_Witness ==
  /\ GnDoneOk
  /\ start.maxiter = MaxIter
  /\ hist.answers[1].v = start.v
  /\ Len(hist.fwdCalls) = MaxIter
  /\ res.val = start.x0

\* lambda_k: lambda_0 is the starting lamb, lambda_{k+1} is
\* lambda_k * lamb_decay if lambda_k > lamb_min and lambda_k otherwise
RECURSIVE LambdaAt(_)
LambdaAt(k) ==
  IF k = 0 THEN start.lamb
  ELSE IF start.lamb_min[1] * LambdaAt(k - 1)[3] < LambdaAt(k - 1)[1] * start.lamb_min[3]
       THEN CMul(LambdaAt(k - 1), start.lamb_decay)
       ELSE LambdaAt(k - 1)

\* C2: the system matrix of iteration k is G + lambda_k * R with G and R of
\* that iteration's Jacobian; the decay made in an iteration shows only in
\* later iterations.  maxiter=3, lamb=1, lamb_decay=1/2, lamb_min=1/10 uses
\* the lambdas 1, 1/2, 1/4.
C2_LambdaSequence ==
  /\ \A k \in 1..Len(hist.hUsed) :
       /\ hist.lambs[k] = LambdaAt(k - 1)
       /\ hist.hUsed[k] =
            MatAdd(MatMul(Conjugate(Transpose(hist.answers[k].jac)), hist.answers[k].jac),
                   MatScale(LambdaAt(k - 1),
                            gn_r_mat(hist.answers[k].jac, start.p, start.method)))
  /\ (/\ res.op = "gn" /\ Len(hist.lambs) = 3
      /\ start.lamb = Num(1) /\ start.lamb_decay = Frac(1, 2)
      /\ start.lamb_min = Frac(1, 10))
       => hist.lambs = <<Num(1), Frac(1, 2), Frac(1, 4)>>

\* three iterations that used 1, 1/2, 1/4 with a regulariser that is not zero
C2_Witness ==
  /\ GnDoneOk
  /\ hist.lambs = <<Num(1), Frac(1, 2), Frac(1, 4)>>
  /\ start.lamb_min = Frac(1, 10)
  /\ hist.hUsed[3] # gn_j_w_j(hist.answers[3].jac)

\* iteration k of the current call failed: the forward model raised, or the
\* system matrix it formed was singular
FailedAt(k) ==
  \/ hist.answers[k].exc # NoExc
  \/ k <= Len(hist.hUsed) /\ Det(hist.hUsed[k]) = CZero

\* C3: a failure of the forward model or of the linear solve in iteration k
\* ends the call with that failure: the failing forward call is the last
\* one, no later iteration ran, and no estimate is returned.
C3_FailureAborts ==
  \A k \in 1..Len(hist.answers) :
    FailedAt(k) =>
      /\ pc = "done"
      /\ res.op = "gn"
      /\ res.exc = (IF hist.answers[k].exc # NoExc THEN ForwardModelError ELSE LinAlgError)
      /\ res.val = NoVal
      /\ k = Len(hist.answers)
      /\ k = Len(hist.fwdCalls)
      /\ Len(hist.xs) = k - 1
      /\ ~ENABLED GnIter

\* a singular system matrix in the second of three iterations, after a
\* first iteration that moved the estimate
C3_Witness ==
  /\ pc = "done" /\ res.op = "gn" /\ res.exc = LinAlgError
  /\ start.maxiter = 3
  /\ Len(hist.answers) = 2
  /\ hist.xs[1] # start.x0

\* C5: an iteration whose forward voltages equal the measured v and whose
\* system matrix is nonsingular has d = 0 and leaves the estimate as it was;
\* a run with maxiter >= 1 whose forward model answers v at x0 returns x0.
C5_ZeroResidualFixedPoint ==
  /\ \A k \in 1..Len(hist.xs) :
       hist.answers[k].v = start.v =>
         /\ hist.ds[k] = VZero(Len(start.x0))
         /\ hist.xs[k] = hist.fwdCalls[k]
  /\ (GnDoneOk /\ start.maxiter >= 1 /\ hist.answers[1].v = start.v) =>
       res.val = start.x0

\* three iterations at zero residual on a Jacobian of full rank returned x0
C5_Witness ==
  /\ GnDoneOk
  /\ start.maxiter = 3
  /\ hist.answers[1].v = start.v
  /\ hist.answers[1].jac # JDef
  /\ hist.ds = <<VZero(2), VZero(2), VZero(2)>>
  /\ res.val = start.x0

\* C9: with a starting lamb >= lamb_min and 0 < lamb_decay <= 1 the lamb of
\* a running gn call, and the lamb of every system matrix, is >= lamb_min.
C9_LambNeverBelowMin ==
  (/\ res.op = "gn"
   /\ RGe(start.lamb, start.lamb_min)
   /\ RGt(start.lamb_decay, CZero) /\ RGe(COne, start.lamb_decay))
    => /\ RGe(frame.lamb, start.lamb_min)
       /\ \A k \in 1..Len(hist.lambs) : RGe(hist.lambs[k], start.lamb_min)

\* C10: from its entry to its end, by return or by failure, a gn call leaves
\* self.J, self.perm, self.H and self.params as they were at the entry.
C10_GnLeavesSolverAlone ==
  res.op = "gn" => hist.self0 = Some(SelfSnapshot)

\* a returned run that started from self.perm, moved the estimate and
\* decayed its lamb
C10_Witness ==
  /\ GnDoneOk
  /\ ~params.none
  /\ start.alias
  /\ res.val # perm
  /\ frame.lamb # start.lamb
  /\ hist.self0 = Some(SelfSnapshot)

\* C4: setup (h_matrix) or gn given a method that is neither 'kotre' nor
\* 'lm' ends in a ConfigurationError.
C4_UnknownMethodRejected ==
  (/\ pc = "done" /\ res.op \in {"setup", "gn"}
   /\ res.method.val \notin {"kotre", "lm"})
    => res.exc = ConfigurationError

\* ------------------------------------------------------------------------
\* sar as a function of el2no
\* ------------------------------------------------------------------------
MaxElems == 3
MaxNode == 2

\* node triples; sar looks a node up in every column, so the order of the
\* nodes within a row is immaterial and each triple is listed once
Triangles ==
  {t \in (0..MaxNode) \X (0..MaxNode) \X (0..MaxNode) : t[1] <= t[2] /\ t[2] <= t[3]}
ElemArrays == UNION {[1..ne -> Triangles] : ne \in 1..MaxElems}

\* the solver fields and call state, at rest, while a function is applied
\* to inputs of its own
AtRest ==
  /\ J = JMix /\ perm = XA /\ el2no \in Mesh2 /\ H = None /\ params = None
  /\ pc = "idle" /\ frame = NoFrame /\ fwd = <<>> /\ hist = NoHist
  /\ res = Res("init", NoExc, NoVal, NoMethod)
restVars == <<J, perm, H, params, el2no, pc, frame, fwd, hist, res>>

InitSar ==
  /\ AtRest
  /\ inp \in {[el2no |-> e] : e \in ElemArrays}
  /\ out = None

ApplySar ==
  /\ out = None
  /\ out' = Some(sar(inp.el2no))
  /\ UNCHANGED <<restVars, inp>>

SpecSar == InitSar /\ [][ApplySar]_vars

Nodes(e, i) == {e[i][k] : k \in 1..Len(e[i])}
SharesNode(e, i, j) == Nodes(e, i) \cap Nodes(e, j) # {}

\* C6: sar(el2no) is the ne x ne matrix D with D[i,i] the number of elements
\* j # i that share a node with element i, D[i,j] = -1 for those j and
\* D[i,j] = 0 for every other j # i.
C6_SarMatrix ==
  ~out.none =>
    LET e == inp.el2no
        D == out.val
    IN  /\ Len(D) = Len(e)
        /\ \A i \in 1..Len(e) :
             /\ Len(D[i]) = Len(e)
             /\ D[i][i] = Num(Cardinality({j \in 1..Len(e) : j # i /\ SharesNode(e, i, j)}))
             /\ \A j \in (1..Len(e)) \ {i} :
                  D[i][j] = IF SharesNode(e, i, j) THEN Num(-1) ELSE Num(0)

\* three elements of which the first shares a node with the second only
C6_Witness ==
  /\ ~out.none
  /\ inp.el2no = << <<0, 0, 1>>, <<1, 2, 2>>, <<2, 2, 2>> >>
  /\ out.val[1] = <<Num(1), Num(-1), Num(0)>>
  /\ out.val[2] = <<Num(-1), Num(2), Num(-1)>>

\* ------------------------------------------------------------------------
\* solve_gs as a function of H, v0 and the gain c of v1 = c * v0
\* ------------------------------------------------------------------------
GsEntries == {Num(0), Num(1), Num(-1), Num(2), I_}
GsV0 == {<<a, b>> : a \in GsEntries, b \in GsEntries}
GsGains == {Num(1), Num(-1), Num(3), I_, Cplx(1, 1), Frac(1, 2)}
GsH == {JMix, JCx, << <<Num(1), I_>> >>, << <<Num(2), Num(0)>>, <<Num(0), Num(1)>>, <<I_, Num(-1)>> >>}

InitGs ==
  /\ AtRest
  /\ inp \in [H : GsH, v0 : GsV0, c : GsGains]
  /\ out = None

\* solve_gs(c * v0, v0) on a solver whose cached H is inp.H; the quotient of
\* line 68 needs v0.v0 # 0
ApplySolveGs ==
  /\ out = None
  /\ VDot(inp.v0, inp.v0) # CZero
  /\ out' = Some([a |-> solve_gs_a(VScale(inp.c, inp.v0), inp.v0),
                  dv |-> solve_gs_dv(VScale(inp.c, inp.v0), inp.v0),
                  ds |-> solve_gs(inp.H, VScale(inp.c, inp.v0), inp.v0)])
  /\ UNCHANGED <<restVars, inp>>

SpecGs == InitGs /\ [][ApplySolveGs]_vars

\* C7: for v0 with v0.v0 # 0 and a gain c # 0, solve_gs(c * v0, v0) finds
\* a = c, dv = 0 and returns the zero vector, whatever H is.
C7_GainInvariance ==
  (~out.none /\ inp.c # CZero) =>
    /\ out.val.a = inp.c
    /\ out.val.dv = VZero(Len(inp.v0))
    /\ out.val.ds = VZero(Len(inp.H))

\* a complex gain on a complex v0 through a 3 x 2 H
C7_Witness ==
  /\ ~out.none
  /\ inp.c = Cplx(1, 1)
  /\ inp.v0 = <<Num(2), I_>>
  /\ Len(inp.H) = 3
  /\ out.val.a = Cplx(1, 1)
  /\ out.val.ds = VZero(3)

\* ------------------------------------------------------------------------
\* The system matrix of h_matrix and of an iteration of gn on the same
\* Jacobian, p, lamb and method
\* ------------------------------------------------------------------------
SysJ == {JMix, JCx, JDef, << <<I_, Num(1)>> >>}
SysExponents == {0, 1, 2}
SysLambs == {Num(0), Frac(1, 2), Num(1)}

InitSys ==
  /\ AtRest
  /\ inp \in [jac : SysJ, p : SysExponents, lamb : SysLambs, method : Methods]
  /\ out = [h |-> None, gn |-> None]

ApplyHMatrix ==
  /\ out.h = None
  /\ out' = [out EXCEPT !.h =
       Some([j_w_j |-> h_matrix_j_w_j(inp.jac),
             r_mat |-> h_matrix_r_mat(inp.jac, inp.p, inp.method),
             sys |-> h_matrix_sys(inp.jac, inp.p, inp.lamb, inp.method),
             H |-> h_matrix(inp.jac, inp.p, inp.lamb, inp.method)])]
  /\ UNCHANGED <<restVars, inp>>

ApplyGnSystem ==
  /\ out.gn = None
  /\ out' = [out EXCEPT !.gn =
       Some([j_w_j |-> gn_j_w_j(inp.jac),
             r_mat |-> gn_r_mat(inp.jac, inp.p, inp.method),
             h_mat |-> gn_h_mat(inp.jac, inp.p, inp.lamb, inp.method)])]
  /\ UNCHANGED <<restVars, inp>>

NextSys == ApplyHMatrix \/ ApplyGnSystem
SpecSys == InitSys /\ [][NextSys]_vars

ConjT(A) == Conjugate(Transpose(A))
RuleR(G, p, method) ==
  IF method.val = "kotre" THEN DiagMat(VPow(DiagOf(G), p)) ELSE Eye(Len(G))

\* C8: on the same J, p, lamb and method, h_matrix and an iteration of gn
\* form the same G = conj(J)^T J, the same R (diag(diag(G)^p) for kotre,
\* the identity for lm) and the same G + lamb * R, and h_matrix returns the
\* inverse of that matrix times conj(J)^T.
C8_SameSystemMatrix ==
  (~out.h.none /\ ~out.gn.none /\ inp.method.val \in {"kotre", "lm"}) =>
    /\ out.h.val.j_w_j = MatMul(ConjT(inp.jac), inp.jac)
    /\ out.gn.val.j_w_j = MatMul(ConjT(inp.jac), inp.jac)
    /\ out.h.val.r_mat = RuleR(MatMul(ConjT(inp.jac), inp.jac), inp.p, inp.method)
    /\ out.gn.val.r_mat = out.h.val.r_mat
    /\ out.gn.val.h_mat = out.h.val.sys
    /\ out.h.val.H.exc = NoExc =>
         out.h.val.H.val = MatMul(LaInv(out.gn.val.h_mat).val, ConjT(inp.jac))

====
